---- MODULE Spec2Model ----
(***************************************************************************)
(* A model of scraper.py: four club scrapers, the main runner that         *)
(* concatenates their records and writes events.csv, report.html,          *)
(* index.html and events.ics.                                              *)
(*                                                                         *)
(* A Python str is a sequence of one-character strings.  The two non-ASCII *)
(* characters of the source are the atoms "U+2019" (right single quote)    *)
(* and "U+2014" (em dash).  An optional str (a str or None) is a record    *)
(* [some, val].                                                            *)
(***************************************************************************)
EXTENDS Integers, Sequences, FiniteSets, TLC

VARIABLES
    pc,          \* position of the main runner, or of the function run on its own
    today,       \* date.today() as seen by scrape_mrmclub: [year, month]
    page,        \* what the three fetched pages hold (inputs of the scrapers)
    ret,         \* what each scraper returned, by scraper name
    all_events,  \* the list all_events / the rows of df
    i,           \* loop counter of scrape_mrmclub
    d,           \* the local d of first_thursday
    steps,       \* number of "d += timedelta(days=1)" executed by this call
    events,      \* the local list events of scrape_mrmclub
    csv,         \* events.csv: a sequence of rows, each a sequence of cells
    report,      \* report.html: the sequence of strings written
    index_html,  \* index.html
    cal,         \* cal.events: the set of events added, tagged by row number
    skipped,     \* rows whose ICS event raised and was skipped
    text,        \* argument of parse_date_from_text run on its own
    origin,      \* how that text was put together (bookkeeping, not program state)
    parsed,      \* its result
    row,         \* one row of df, for the ICS loop body run on its own
    built,       \* the outcome of the ICS loop body on row
    coll,        \* run(): the collection before filtering
    filter_past, \* run(): the toggle
    as_of,       \* run(): the reference date
    result       \* run(): the collection returned

vars == <<pc, today, page, ret, all_events, i, d, steps, events, csv, report,
          index_html, cal, skipped, text, origin, parsed, row, built, coll,
          filter_past, as_of, result>>

\* ------------------------------------------------------------------ bounds

\* First year of the dates the model draws.
BaseYear == 2024
\* Number of consecutive years drawn.
NumYears == 3
\* Largest number of event rows on the Emerald Guild listing page.
MaxRows == 2
\* Largest number of events in a collection handed to run().
MaxColl == 3

Years == BaseYear .. (BaseYear + NumYears - 1)

\* --------------------------------------------------------------- str, None

None == [some |-> FALSE, val |-> <<>>]
Some(s) == [some |-> TRUE, val |-> s]
\* Python truthiness of an optional str: None and "" are falsy.
Truthy(o) == o.some /\ o.val # <<>>

Digits == <<"0", "1", "2", "3", "4", "5", "6", "7", "8", "9">>
DigitSet == {Digits[k] : k \in 1..10}
IsDigit(c) == c \in DigitSet
DigitVal(c) == CHOOSE n \in 0..9 : Digits[n + 1] = c
Upper == {"A", "B", "C", "D", "E", "F", "G", "H", "I", "J", "K", "L", "M",
          "N", "O", "P", "Q", "R", "S", "T", "U", "V", "W", "X", "Y", "Z"}
Lower == {"a", "b", "c", "d", "e", "f", "g", "h", "i", "j", "k", "l", "m",
          "n", "o", "p", "q", "r", "s", "t", "u", "v", "w", "x", "y", "z"}

\* "%02d" % n and "%04d" % n
Pad2(n) == <<Digits[((n \div 10) % 10) + 1], Digits[(n % 10) + 1]>>
Pad4(n) == <<Digits[((n \div 1000) % 10) + 1], Digits[((n \div 100) % 10) + 1],
             Digits[((n \div 10) % 10) + 1], Digits[(n % 10) + 1]>>

\* ------------------------------------------------- datetime.date (stdlib)

IsLeap(y) == y % 4 = 0 /\ (y % 100 # 0 \/ y % 400 = 0)
DAYS_IN_MONTH == <<31, 28, 31, 30, 31, 30, 31, 31, 30, 31, 30, 31>>
DAYS_BEFORE_MONTH == <<0, 31, 59, 90, 120, 151, 181, 212, 243, 273, 304, 334>>
DaysInMonth(y, m) == IF m = 2 /\ IsLeap(y) THEN 29 ELSE DAYS_IN_MONTH[m]
DaysBeforeYear(y) ==
    (y - 1) * 365 + (y - 1) \div 4 - (y - 1) \div 100 + (y - 1) \div 400
DaysBeforeMonth(y, m) ==
    DAYS_BEFORE_MONTH[m] + (IF m > 2 /\ IsLeap(y) THEN 1 ELSE 0)

\* date(year, month, day): the constructor raises ValueError outside the
\* calendar.
ValidDate(y, m, dd) ==
    y \in 1..9999 /\ m \in 1..12 /\ dd >= 1 /\ dd <= DaysInMonth(y, m)
Date(y, m, dd) == [year |-> y, month |-> m, day |-> dd]

\* date.toordinal()
ToOrdinal(dt) ==
    DaysBeforeYear(dt.year) + DaysBeforeMonth(dt.year, dt.month) + dt.day

\* date.fromordinal(n), as datetime._ord2ymd computes it
FromOrdinal(n) ==
    LET n0 == n - 1
        n400 == n0 \div 146097
        r400 == n0 % 146097
        n100 == r400 \div 36524
        r100 == r400 % 36524
        n4 == r100 \div 1461
        r4 == r100 % 1461
        n1 == r4 \div 365
        r1 == r4 % 365
        y == n400 * 400 + 1 + n100 * 100 + n4 * 4 + n1
        leap == n1 = 3 /\ (n4 # 24 \/ n100 = 3)
        m0 == (r1 + 50) \div 32
        p0 == DAYS_BEFORE_MONTH[m0] + (IF m0 > 2 /\ leap THEN 1 ELSE 0)
        m == IF p0 > r1 THEN m0 - 1 ELSE m0
        p == IF p0 > r1
             THEN p0 - (DAYS_IN_MONTH[m] + (IF m = 2 /\ leap THEN 1 ELSE 0))
             ELSE p0
    IN  IF n1 = 4 \/ n100 = 4
        THEN Date(y - 1, 12, 31)
        ELSE Date(y, m, r1 - p + 1)

\* date.weekday(): Monday is 0, Thursday is 3
Weekday(dt) == (ToOrdinal(dt) + 6) % 7

\* d + timedelta(days=n)
AddDays(dt, n) == FromOrdinal(ToOrdinal(dt) + n)

\* date.isoformat()
IsoFormat(dt) ==
    Pad4(dt.year) \o <<"-">> \o Pad2(dt.month) \o <<"-">> \o Pad2(dt.day)


\* datetime.strptime(s, "%Y-%m-%d"): the format's regular expression is
\* (\d\d\d\d)-(1[0-2]|0[1-9]|[1-9])-(3[01]|[12]\d|0[1-9]|[1-9]| [1-9]), its
\* alternatives tried in order; text left after the match, or a day the
\* month does not have, raises ValueError (ok = FALSE).
At(s, p) == IF p >= 1 /\ p <= Len(s) THEN s[p] ELSE "EOS"
MonthAlts(s, p) ==
    LET a == At(s, p)
        b == At(s, p + 1)
    IN  (IF a = "1" /\ b \in {"0", "1", "2"}
         THEN <<[val |-> 10 + DigitVal(b), next |-> p + 2]>> ELSE <<>>)
        \o
        (IF a = "0" /\ IsDigit(b) /\ b # "0"
         THEN <<[val |-> DigitVal(b), next |-> p + 2]>> ELSE <<>>)
        \o
        (IF IsDigit(a) /\ a # "0"
         THEN <<[val |-> DigitVal(a), next |-> p + 1]>> ELSE <<>>)
DayAlts(s, p) ==
    LET a == At(s, p)
        b == At(s, p + 1)
    IN  (IF a = "3" /\ b \in {"0", "1"}
         THEN <<[val |-> 30 + DigitVal(b), next |-> p + 2]>> ELSE <<>>)
        \o
        (IF a \in {"1", "2"} /\ IsDigit(b)
         THEN <<[val |-> 10 * DigitVal(a) + DigitVal(b), next |-> p + 2]>>
         ELSE <<>>)
        \o
        (IF a = "0" /\ IsDigit(b) /\ b # "0"
         THEN <<[val |-> DigitVal(b), next |-> p + 2]>> ELSE <<>>)
        \o
        (IF IsDigit(a) /\ a # "0"
         THEN <<[val |-> DigitVal(a), next |-> p + 1]>> ELSE <<>>)
        \o
        (IF a = " " /\ IsDigit(b) /\ b # "0"
         THEN <<[val |-> DigitVal(b), next |-> p + 2]>> ELSE <<>>)
StrptimeFail == [ok |-> FALSE, year |-> 0, month |-> 0, day |-> 0]
Strptime(s) ==
    IF ~(\A p \in 1..4 : IsDigit(At(s, p))) \/ At(s, 5) # "-"
    THEN StrptimeFail
    ELSE
        LET y == 1000 * DigitVal(s[1]) + 100 * DigitVal(s[2])
                 + 10 * DigitVal(s[3]) + DigitVal(s[4])
            ms == MonthAlts(s, 6)
            \* the first month alternative after which "-" and a day match
            good == {k \in 1..Len(ms) :
                        /\ At(s, ms[k].next) = "-"
                        /\ DayAlts(s, ms[k].next + 1) # <<>>}
        IN  IF good = {}
            THEN StrptimeFail
            ELSE
                LET k == CHOOSE k \in good : \A j \in good : k <= j
                    dd == DayAlts(s, ms[k].next + 1)[1]
                IN  IF dd.next # Len(s) + 1 \/ ~ValidDate(y, ms[k].val, dd.val)
                    THEN StrptimeFail
                    ELSE [ok |-> TRUE, year |-> y, month |-> ms[k].val,
                          day |-> dd.val]

\* ------------------------------------------------- parse_date_from_text

\* int(s) of a string of digits
RECURSIVE IntOf(_)
IntOf(s) ==
    IF s = <<>> THEN 0
    ELSE 10 * IntOf(SubSeq(s, 1, Len(s) - 1)) + DigitVal(s[Len(s)])

\* The end (exclusive) of a match of ", \d{4}" at p, or 0.
TailEnd(s, p) ==
    IF /\ At(s, p) = ","
       /\ At(s, p + 1) = " "
       /\ \A k \in 2..5 : IsDigit(At(s, p + k))
    THEN p + 6 ELSE 0

\* The end (exclusive) of a match of [A-Z][a-z]+ \d{1,2}, \d{4} that starts
\* at p, or 0.  [a-z]+ is greedy and the space after it cannot be a letter,
\* so the run of lower-case letters is taken whole; \d{1,2} tries two digits
\* and then one.
MatchEnd(s, p) ==
    IF ~(At(s, p) \in Upper /\ At(s, p + 1) \in Lower)
    THEN 0
    ELSE
        LET q == CHOOSE q \in (p + 2)..(Len(s) + 1) :
                    /\ At(s, q) \notin Lower
                    /\ \A k \in (p + 1)..(q - 1) : s[k] \in Lower
        IN  IF At(s, q) # " " \/ ~IsDigit(At(s, q + 1))
            THEN 0
            ELSE IF IsDigit(At(s, q + 2)) /\ TailEnd(s, q + 3) # 0
            THEN TailEnd(s, q + 3)
            ELSE TailEnd(s, q + 2)

\* re.search: the leftmost start with a match; [from, to) or from = 0.
NoMatch == [from |-> 0, to |-> 0]
ReSearchAlt(s) ==
    LET starts == {p \in 1..Len(s) : MatchEnd(s, p) # 0}
    IN  IF starts = {} THEN NoMatch
        ELSE LET p == CHOOSE p \in starts : \A r \in starts : r <= p
             IN  [from |-> p, to |-> MatchEnd(s, p)]
ReSearch(s) ==
    LET starts == {p \in 1..Len(s) : MatchEnd(s, p) # 0}
    IN  IF starts = {} THEN NoMatch
        ELSE LET p == CHOOSE p \in starts : \A r \in starts : p <= r
             IN  [from |-> p, to |-> MatchEnd(s, p)]

\* dateutil.parser's month names (parserinfo.MONTHS); the lookup ignores
\* case, and the regular expression lets through only Capitalised words.
\* "January", "February", "March", "April"
MonthNames == <<<<"J", "a", "n", "u", "a", "r", "y">>, <<"F", "e", "b", "r", "u",
                                                         "a", "r", "y">>, <<"M", "a", "r", "c", "h">>, <<"A", "p", "r", "i", "l">>, <<"M", "a", "y">>,
                \* "June", "July", "August", "September", "October"
                <<"J", "u", "n", "e">>, <<"J", "u", "l", "y">>, <<"A", "u", "g", "u", "s", "t">>, <<"S", "e", "p", "t", "e",
                                                                                                    "m", "b", "e", "r">>, <<"O", "c", "t", "o", "b",
                                                                                                                            "e", "r">>,
                \* "November", "December"
                <<"N", "o", "v", "e", "m", "b", "e", "r">>, <<"D", "e", "c", "e", "m",
                                                              "b", "e", "r">>>>
MonthAbbrs == <<<<"J", "a", "n">>, <<"F", "e", "b">>, <<"M", "a", "r">>, <<"A", "p", "r">>, <<"M", "a", "y">>, <<"J", "u", "n">>, <<"J", "u", "l">>,
                <<"A", "u", "g">>, <<"S", "e", "p">>, <<"O", "c", "t">>, <<"N", "o", "v">>, <<"D", "e", "c">>>>
MonthOf(word) ==
    IF \E m \in 1..12 : MonthNames[m] = word
    THEN CHOOSE m \in 1..12 : MonthNames[m] = word
    ELSE IF \E m \in 1..12 : MonthAbbrs[m] = word
    THEN CHOOSE m \in 1..12 : MonthAbbrs[m] = word
    \* "Sept"
    ELSE IF word = <<"S", "e", "p", "t">> THEN 9
    ELSE 0

\* dateparser.parse(s).date() for a string s of the shape "Word D, YYYY":
\* a month name, a day of that month and a year give the date; a word
\* dateutil does not know (ParserError) or a day the month does not have
\* (ValueError) raises (ok = FALSE).  dateutil's other vocabulary (weekday
\* names, "at", "on", "and", "of", "am", "pm", zone names) is not modelled and
\* is kept out of the texts the model draws.
DateutilParse(s) ==
    LET sp == CHOOSE p \in 1..Len(s) : s[p] = " " /\ \A k \in 1..(p - 1) : s[k] # " "
        cm == CHOOSE p \in 1..Len(s) : s[p] = ","
        m == MonthOf(SubSeq(s, 1, sp - 1))
        dd == IntOf(SubSeq(s, sp + 1, cm - 1))
        y == IntOf(SubSeq(s, cm + 2, Len(s)))
    IN  IF m # 0 /\ ValidDate(y, m, dd)
        THEN [ok |-> TRUE, year |-> y, month |-> m, day |-> dd]
        ELSE StrptimeFail

\* parse_date_from_text(text): the ISO date as an optional str
parse_date_from_text(s) ==
    LET mt == ReSearch(s)
    IN  IF mt.from = 0 THEN None
        ELSE LET dt == DateutilParse(SubSeq(s, mt.from, mt.to - 1))
             IN  IF dt.ok THEN Some(IsoFormat(Date(dt.year, dt.month, dt.day)))
                 ELSE None

\* ---------------------------------------------------- literals of the source

\* "Emerald Guild"
EMERALD_GUILD == <<"E", "m", "e", "r", "a", "l", "d", " ", "G", "u", "i",
                   "l", "d">>
\* "Illyrian BMA"
ILLYRIAN_BMA == <<"I", "l", "l", "y", "r", "i", "a", "n", " ", "B", "M", "A">>
\* "NYBMA"
NYBMA == <<"N", "Y", "B", "M", "A">>
\* "Manhattan Resident Managers Club"
MRM_CLUB == <<"M", "a", "n", "h", "a", "t", "t", "a", "n", " ", "R", "e",
              "s", "i", "d", "e", "n", "t", " ", "M", "a", "n", "a", "g",
              "e", "r", "s", " ", "C", "l", "u", "b">>
\* "https://emeraldguild.org/events/"
EmeraldUrl == <<"h", "t", "t", "p", "s", ":", "/", "/", "e", "m", "e", "r",
                "a", "l", "d", "g", "u", "i", "l", "d", ".", "o", "r", "g",
                "/", "e", "v", "e", "n", "t", "s", "/">>
\* "https://www.ibmanyc.com/"
IbmaUrl == <<"h", "t", "t", "p", "s", ":", "/", "/", "w", "w", "w", ".",
             "i", "b", "m", "a", "n", "y", "c", ".", "c", "o", "m", "/">>
\* "https://nybma.org/"
NybmaUrl == <<"h", "t", "t", "p", "s", ":", "/", "/", "n", "y", "b", "m",
              "a", ".", "o", "r", "g", "/">>
\* "https://mrmclub.com/"
MrmSourceUrl == <<"h", "t", "t", "p", "s", ":", "/", "/", "m", "r", "m",
                  "c", "l", "u", "b", ".", "c", "o", "m", "/">>
\* "St. Pats Bar & Grill, 22 West 46th Street, New York, NY"
IbmaLocation == <<"S", "t", ".", " ", "P", "a", "t", "s", " ", "B", "a",
                  "r", " ", "&", " ", "G", "r", "i", "l", "l", ",", " ",
                  "2", "2", " ", "W", "e", "s", "t", " ", "4", "6", "t",
                  "h", " ", "S", "t", "r", "e", "e", "t", ",", " ", "N",
                  "e", "w", " ", "Y", "o", "r", "k", ",", " ", "N", "Y">>
ConnollysLocation ==
    \* "ConnollyU+2019s Pub & Restaurant, 121 West 45th St, New York, NY 10036"
    <<"C", "o", "n", "n", "o", "l", "l", "y", "U+2019", "s", " ", "P", "u",
      "b", " ", "&", " ", "R", "e", "s", "t", "a", "u", "r", "a", "n", "t",
      ",", " ", "1", "2", "1", " ", "W", "e", "s", "t", " ", "4", "5", "t",
      "h", " ", "S", "t", ",", " ", "N", "e", "w", " ", "Y", "o", "r", "k",
      ",", " ", "N", "Y", " ", "1", "0", "0", "3", "6">>
NA == <<"N", "/", "A">>
\* "Monthly Meeting"
MonthlyMeeting == <<"M", "o", "n", "t", "h", "l", "y", " ", "M", "e", "e",
                    "t", "i", "n", "g">>
\* "Business Meeting"
BusinessMeeting == <<"B", "u", "s", "i", "n", "e", "s", "s", " ", "M", "e",
                     "e", "t", "i", "n", "g">>
\* "Event"
DefaultTitle == <<"E", "v", "e", "n", "t">>

\* One record of all_events / one row of df.
EventRec(club, title, location, date, source_url) ==
    [club |-> club, title |-> title, location |-> location, date |-> date,
     source_url |-> source_url]

\* ------------------------------------------------- scrape_emerald_guild

\* date_el["datetime"].split("T")[0]
SplitT(s) ==
    IF \E p \in 1..Len(s) : s[p] = "T"
    THEN SubSeq(s, 1, (CHOOSE p \in 1..Len(s) :
                          s[p] = "T" /\ \A k \in 1..(p - 1) : s[k] # "T") - 1)
    ELSE s

\* One div.tribe-events-calendar-list__event-row of the listing page, as the
\* selectors see it: title_el (h3 a) with its stripped text and its href
\* attribute (None: the anchor has no href), the datetime attribute of the
\* time element (None: no element or no attribute), and what fetching the
\* detail page gives: "raises", "none" (no venue element) or "loc".
PageRow(title_el, title, href, datetime, status, loc) ==
    [title_el |-> title_el, title |-> title, href |-> href,
     datetime |-> datetime, detail |-> [status |-> status, loc |-> loc]]

\* title_el["href"] raises KeyError
RowRaises(r) == r.title_el /\ ~r.href.some

EmeraldEvent(r) ==
    LET title == IF r.title_el THEN r.title ELSE DefaultTitle
        link == IF r.title_el THEN r.href.val ELSE EmeraldUrl
        date == IF r.datetime.some THEN Some(SplitT(r.datetime.val)) ELSE None
        location == IF link # <<>> /\ r.detail.status = "loc"
                    THEN r.detail.loc ELSE NA
    IN  EventRec(EMERALD_GUILD, title, location, date, link)

RECURSIVE EmeraldEvents(_)
EmeraldEvents(rows) ==
    IF rows = <<>> THEN <<>>
    ELSE <<EmeraldEvent(Head(rows))>> \o EmeraldEvents(Tail(rows))

\* The rows the model puts on the listing page.
RowChoices ==
    \* "Gala", "https://emeraldguild.org/event/gala/"
    {PageRow(TRUE, <<"G", "a", "l", "a">>, Some(<<"h", "t", "t", "p", "s",
                                                  ":", "/", "/", "e", "m",
                                                  "e", "r", "a", "l", "d",
                                                  "g", "u", "i", "l", "d",
                                                  ".", "o", "r", "g", "/",
                                                  "e", "v", "e", "n", "t",
                                                  "/", "g", "a", "l", "a", "/">>),
             \* "2025-07-04T17:00:00-04:00", "The Hall"
             Some(<<"2", "0", "2", "5", "-", "0", "7", "-", "0", "4", "T",
                    "1", "7", ":", "0", "0", ":", "0", "0", "-", "0", "4",
                    ":", "0", "0">>), "loc", <<"T", "h", "e", " ", "H",
                                               "a", "l", "l">>),
     PageRow(FALSE, <<>>, None, None, "none", <<>>),
     \* "<script>x</script>", "x'><b>"
     PageRow(TRUE, <<"<", "s", "c", "r", "i", "p", "t", ">", "x", "<", "/",
                     "s", "c", "r", "i", "p", "t", ">">>, Some(<<"x", "'", ">", "<", "b", ">">>),
             \* "2025-13-45"
             Some(<<"2", "0", "2", "5", "-", "1", "3", "-", "4", "5">>), "raises", <<>>),
     \* "Dinner"
     PageRow(TRUE, <<"D", "i", "n", "n", "e", "r">>, Some(<<>>), Some(<<"T", "B", "D">>), "loc", <<"P", "u", "b">>),
     \* "Lunch", "2025-03-01"
     PageRow(TRUE, <<"L", "u", "n", "c", "h">>, None, Some(<<"2", "0", "2", "5", "-",
                                                             "0", "3", "-", "0", "1">>), "loc", <<"P", "u", "b">>)}
RowSeqs == UNION {[1..n -> RowChoices] : n \in 0..MaxRows}

\* The texts the model puts on the IBMA and NYBMA pages.
PageTexts ==
    \* "Next meeting: Thursday, November 6, 2025 at 6pm"
    {<<"N", "e", "x", "t", " ", "m", "e", "e", "t", "i", "n", "g", ":",
       " ", "T", "h", "u", "r", "s", "d", "a", "y", ",", " ", "N", "o",
       "v", "e", "m", "b", "e", "r", " ", "6", ",", " ", "2", "0", "2",
       "5", " ", "a", "t", " ", "6", "p", "m">>,
     \* "No meeting this month"
     <<"N", "o", " ", "m", "e", "e", "t", "i", "n", "g", " ", "t", "h",
       "i", "s", " ", "m", "o", "n", "t", "h">>,
     \* "Room 12, 2025 - September 11, 2025"
     <<"R", "o", "o", "m", " ", "1", "2", ",", " ", "2", "0", "2", "5",
       " ", "-", " ", "S", "e", "p", "t", "e", "m", "b", "e", "r", " ",
       "1", "1", ",", " ", "2", "0", "2", "5">>}

ExtendAlt(list, more) == more \o list
Extend(list, more) == list \o more

\* requests.get(url) raises in one of the three page scrapers: nothing
\* catches it, the interpreter exits.
FetchRaises ==
    /\ pc \in {"emerald", "ibma", "nybma"}
    /\ pc' = "crashed"
    /\ UNCHANGED <<today, page, ret, all_events, i, d, steps, events, csv,
                   report, index_html, cal, skipped, text, origin, parsed, row,
                   built, coll, filter_past, as_of, result>>

\* all_events.extend(scrape_emerald_guild()), every row read without error
ScrapeEmeraldGuild ==
    /\ pc = "emerald"
    /\ \E rows \in RowSeqs :
        /\ \A k \in 1..Len(rows) : ~RowRaises(rows[k])
        /\ page' = [page EXCEPT !.rows = rows]
        /\ ret' = [ret EXCEPT !.emerald = EmeraldEvents(rows)]
        /\ all_events' = Extend(all_events, EmeraldEvents(rows))
    /\ pc' = "ibma"
    /\ UNCHANGED <<today, i, d, steps, events, csv, report, index_html, cal,
                   skipped, text, origin, parsed, row, built, coll, filter_past,
                   as_of, result>>

\* scrape_emerald_guild meets an anchor without href: KeyError, uncaught
ScrapeEmeraldGuildRaises ==
    /\ pc = "emerald"
    /\ \E rows \in RowSeqs :
        /\ \E k \in 1..Len(rows) : RowRaises(rows[k])
        /\ page' = [page EXCEPT !.rows = rows]
    /\ pc' = "crashed"
    /\ UNCHANGED <<today, ret, all_events, i, d, steps, events, csv, report,
                   index_html, cal, skipped, text, origin, parsed, row, built,
                   coll, filter_past, as_of, result>>

IbmaEvent(t) ==
    EventRec(ILLYRIAN_BMA, MonthlyMeeting, IbmaLocation,
             parse_date_from_text(t), IbmaUrl)
NybmaEvent(t) ==
    EventRec(NYBMA, BusinessMeeting, ConnollysLocation,
             parse_date_from_text(t), NybmaUrl)

\* all_events.extend(scrape_ibma())
ScrapeIbma ==
    /\ pc = "ibma"
    /\ \E t \in PageTexts :
        /\ page' = [page EXCEPT !.ibma = t]
        /\ ret' = [ret EXCEPT !.ibma = <<IbmaEvent(t)>>]
        /\ all_events' = Extend(all_events, <<IbmaEvent(t)>>)
    /\ pc' = "nybma"
    /\ UNCHANGED <<today, i, d, steps, events, csv, report, index_html, cal,
                   skipped, text, origin, parsed, row, built, coll, filter_past,
                   as_of, result>>

\* all_events.extend(scrape_nybma())
ScrapeNybma ==
    /\ pc = "nybma"
    /\ \E t \in PageTexts :
        /\ page' = [page EXCEPT !.nybma = t]
        /\ ret' = [ret EXCEPT !.nybma = <<NybmaEvent(t)>>]
        /\ all_events' = Extend(all_events, <<NybmaEvent(t)>>)
    /\ pc' = "mrmclub"
    /\ UNCHANGED <<today, i, d, steps, events, csv, report, index_html, cal,
                   skipped, text, origin, parsed, row, built, coll, filter_past,
                   as_of, result>>

\* ------------------------------------------ first_thursday, scrape_mrmclub

\* The year and month scrape_mrmclub computes in iteration k.
MrmYear(t, k) == t.year + (t.month + k - 1) \div 12
MrmMonthAlt(t, k) == ((t.month + k) % 12) + 1
MrmMonth(t, k) == ((t.month + k - 1) % 12) + 1

\* for i in range(12)
MrmRange == 0 .. 11

\* The record appended for a first Thursday dt.
MrmEvent(dt) ==
    EventRec(MRM_CLUB, MonthlyMeeting, ConnollysLocation,
             Some(IsoFormat(dt)), MrmSourceUrl)

\* r = requests.get(url) answered; today = date.today() is read.
MrmFetch ==
    /\ pc = "mrmclub"
    /\ pc' = "mrm_for"
    /\ i' = 0
    /\ events' = <<>>
    /\ UNCHANGED <<today, page, ret, all_events, d, steps, csv, report,
                   index_html, cal, skipped, text, origin, parsed, row, built, coll,
                   filter_past, as_of, result>>

\* requests.get raises: nothing catches it, the interpreter exits.
MrmFetchRaises ==
    /\ pc = "mrmclub"
    /\ pc' = "crashed"
    /\ UNCHANGED <<today, page, ret, all_events, i, d, steps, events, csv,
                   report, index_html, cal, skipped, text, origin, parsed, row, built,
                   coll, filter_past, as_of, result>>

\* Loop head with an iteration left: first_thursday is entered,
\* d = date(year, month, 1).
MrmFor ==
    /\ pc = "mrm_for"
    /\ i \in MrmRange
    /\ d' = Date(MrmYear(today, i), MrmMonth(today, i), 1)
    /\ steps' = 0
    /\ pc' = "mrm_while"
    /\ UNCHANGED <<today, page, ret, all_events, i, events, csv, report,
                   index_html, cal, skipped, text, origin, parsed, row, built, coll,
                   filter_past, as_of, result>>

\* while d.weekday() != 3: d += timedelta(days=1)
FirstThursdayStepAlt == Weekday(d) # 4
FirstThursdayStep == Weekday(d) # 3
MrmAdvance ==
    /\ pc = "mrm_while"
    /\ FirstThursdayStep
    /\ d' = AddDays(d, 1)
    /\ steps' = steps + 1
    /\ UNCHANGED <<pc, today, page, ret, all_events, i, events, csv, report,
                   index_html, cal, skipped, text, origin, parsed, row, built, coll,
                   filter_past, as_of, result>>

\* first_thursday returns d; the record is appended.
MrmAppend ==
    /\ pc = "mrm_while"
    /\ ~FirstThursdayStep
    /\ events' = Append(events, MrmEvent(d))
    /\ i' = i + 1
    /\ pc' = "mrm_for"
    /\ UNCHANGED <<today, page, ret, all_events, d, steps, csv, report,
                   index_html, cal, skipped, text, origin, parsed, row, built, coll,
                   filter_past, as_of, result>>

\* return events; main: all_events.extend(scrape_mrmclub())
MrmReturn ==
    /\ pc = "mrm_for"
    /\ i \notin MrmRange
    /\ ret' = [ret EXCEPT !.mrmclub = events]
    /\ all_events' = Extend(all_events, events)
    /\ pc' = "csv"
    /\ UNCHANGED <<today, page, i, d, steps, events, csv, report, index_html,
                   cal, skipped, text, origin, parsed, row, built, coll, filter_past,
                   as_of, result>>

\* ------------------------------------------------------------ events.csv

\* csv.QUOTE_MINIMAL: a field holding the delimiter, the quote character or
\* a line break is wrapped in quotes, its quotes doubled.
RECURSIVE DoubleQuotes(_)
DoubleQuotes(s) ==
    IF s = <<>> THEN <<>>
    ELSE (IF Head(s) = "\"" THEN <<"\"", "\"">> ELSE <<Head(s)>>)
         \o DoubleQuotes(Tail(s))
CsvField(s) ==
    IF \E p \in 1..Len(s) : s[p] \in {",", "\"", "\n", "\r"}
    THEN <<"\"">> \o DoubleQuotes(s) \o <<"\"">>
    ELSE s
\* None is written as the empty field.
CsvRow(r) ==
    <<CsvField(r.club), CsvField(r.title), CsvField(r.location),
      IF r.date.some THEN CsvField(r.date.val) ELSE <<>>,
      CsvField(r.source_url)>>
\* "club", "title", "location", "date", "source_url"
CsvHeader == <<<<"c", "l", "u", "b">>, <<"t", "i", "t", "l", "e">>, <<"l", "o", "c", "a", "t",
                                                                      "i", "o", "n">>, <<"d", "a", "t", "e">>, <<"s", "o", "u", "r", "c",
                                                                                                                 "e", "_", "u", "r", "l">>>>
\* df.to_csv("events.csv", index=False)
ToCsv(rows) == <<CsvHeader>> \o [k \in 1..Len(rows) |-> CsvRow(rows[k])]

SaveCsv ==
    /\ pc = "csv"
    /\ csv' = ToCsv(all_events)
    /\ pc' = "html"
    /\ UNCHANGED <<today, page, ret, all_events, i, d, steps, events, report,
                   index_html, cal, skipped, text, origin, parsed, row, built,
                   coll, filter_past, as_of, result>>

\* ----------------------------------------------------------- report.html

\* str(x) inside an f-string
\* "None"
Str(o) == IF o.some THEN o.val ELSE <<"N", "o", "n", "e">>

\* "<h2>Upcoming NYC Property Manager Meetings</h2>\n<ul>\n"
HtmlHead == <<"<", "h", "2", ">", "U", "p", "c", "o", "m", "i", "n", "g",
              " ", "N", "Y", "C", " ", "P", "r", "o", "p", "e", "r", "t",
              "y", " ", "M", "a", "n", "a", "g", "e", "r", " ", "M", "e",
              "e", "t", "i", "n", "g", "s", "<", "/", "h", "2", ">", "\n",
              "<", "u", "l", ">", "\n">>
\* "</ul>\n"
HtmlFoot == <<"<", "/", "u", "l", ">", "\n">>
\* The six strings written for one row.
HtmlItem(r) ==
    \* "<li>\n"
    <<<<"<", "l", "i", ">", "\n">>,
      \* "</b> U+2014 ", "<br>\n"
      <<"<", "b", ">">> \o r.club \o <<"<", "/", "b", ">", " ", "U+2014",
                                       " ">> \o Str(r.date) \o <<"<", "b", "r", ">", "\n">>,
      \* "Title: ", "<br>\n"
      <<"T", "i", "t", "l", "e", ":", " ">> \o r.title \o <<"<", "b", "r", ">", "\n">>,
      \* "Location: ", "<br>\n"
      <<"L", "o", "c", "a", "t", "i", "o", "n", ":", " ">> \o r.location \o <<"<", "b", "r", ">", "\n">>,
      \* "Link: <a href='", "' target='_blank'>"
      <<"L", "i", "n", "k", ":", " ", "<", "a", " ", "h", "r", "e", "f",
        "=", "'">> \o r.source_url \o <<"'", " ", "t", "a", "r", "g", "e",
                                        "t", "=", "'", "_", "b", "l", "a",
                                        "n", "k", "'", ">">>
          \* "</a>\n"
          \o r.source_url \o <<"<", "/", "a", ">", "\n">>,
      \* "</li><br>\n"
      <<"<", "/", "l", "i", ">", "<", "b", "r", ">", "\n">>>>
RECURSIVE HtmlItems(_)
HtmlItems(rows) ==
    IF rows = <<>> THEN <<>>
    ELSE HtmlItem(Head(rows)) \o HtmlItems(Tail(rows))
Html(rows) == <<HtmlHead>> \o HtmlItems(rows) \o <<HtmlFoot>>

SaveHtml ==
    /\ pc = "html"
    /\ report' = Html(all_events)
    /\ pc' = "copy"
    /\ UNCHANGED <<today, page, ret, all_events, i, d, steps, events, csv,
                   index_html, cal, skipped, text, origin, parsed, row, built,
                   coll, filter_past, as_of, result>>

\* shutil.copy("report.html", "index.html")
CopyIndex ==
    /\ pc = "copy"
    /\ index_html' = report
    /\ pc' = "ics"
    /\ UNCHANGED <<today, page, ret, all_events, i, d, steps, events, csv,
                   report, cal, skipped, text, origin, parsed, row, built, coll,
                   filter_past, as_of, result>>

\* ------------------------------------------------------------ events.ics

\* pytz.timezone("America/New_York"), rules in force since 2007: daylight
\* time from the second Sunday of March, 02:00, to the first Sunday of
\* November, 02:00.  localize (is_dst=False) puts the missing hour 02:00 to
\* 03:00 and the repeated hour 01:00 to 02:00 in standard time.
DstStartDay(y) == CHOOSE dd \in 8..14 : Weekday(Date(y, 3, dd)) = 6
DstEndDay(y) == CHOOSE dd \in 1..7 : Weekday(Date(y, 11, dd)) = 6
InDst(y, m, dd, hh) ==
    /\ \/ m > 3
       \/ m = 3 /\ dd > DstStartDay(y)
       \/ m = 3 /\ dd = DstStartDay(y) /\ hh >= 3
    /\ \/ m < 11
       \/ m = 11 /\ dd < DstEndDay(y)
       \/ m = 11 /\ dd = DstEndDay(y) /\ hh < 1
\* utcoffset in minutes
NyUtcOffsetAlt(y, m, dd, hh) == 0 - 296
NyUtcOffset(y, m, dd, hh) == IF InDst(y, m, dd, hh) THEN 0 - 240 ELSE 0 - 300

\* ny_tz.localize(dt.replace(hour=hh, minute=mm))
Localize(dt, hh, mm) ==
    [some |-> TRUE, year |-> dt.year, month |-> dt.month, day |-> dt.day,
     hour |-> hh, minute |-> mm,
     utcoffset |-> NyUtcOffset(dt.year, dt.month, dt.day, hh)]
NoInstant ==
    [some |-> FALSE, year |-> 0, month |-> 0, day |-> 0, hour |-> 0,
     minute |-> 0, utcoffset |-> 0]

\* The if/elif chain on row["club"]: <<start hour, minute, end hour, minute>>
ClubTimesAlt(club) ==
    IF club = EMERALD_GUILD THEN <<17, 0, 20, 0>>
    ELSE IF club = NYBMA THEN <<19, 30, 21, 30>>
    ELSE IF club = MRM_CLUB THEN <<18, 0, 21, 0>>
    ELSE <<21, 0, 18, 0>>
ClubTimes(club) ==
    IF club = EMERALD_GUILD THEN <<17, 0, 20, 0>>
    ELSE IF club = NYBMA THEN <<19, 30, 21, 30>>
    ELSE IF club = MRM_CLUB THEN <<18, 0, 21, 0>>
    ELSE <<18, 0, 21, 0>>

\* e.name = f"{row['club']} U+2014 {row['title']}"
IcsName(r) == r.club \o <<" ", "U+2014", " ">> \o r.title

\* The body of the try block for one row: the Event added to cal.events, or
\* status "raised" when strptime raises ValueError.
IcsEvent(r) ==
    LET dt == Strptime(r.date.val)
        t == ClubTimes(r.club)
    IN  IF Truthy(r.date) /\ ~dt.ok
        THEN [status |-> "raised"]
        ELSE [status |-> "added",
              name |-> IcsName(r),
              begin |-> IF Truthy(r.date) THEN Localize(dt, t[1], t[2])
                        ELSE NoInstant,
              end |-> IF Truthy(r.date) THEN Localize(dt, t[3], t[4])
                      ELSE NoInstant,
              location |-> IF r.location # NA THEN Some(r.location) ELSE None,
              url |-> IF r.source_url # <<>> THEN Some(r.source_url)
                      ELSE None]

\* The loop over df.iterrows() and the write of events.ics; an Event is
\* tagged with its row number (Event() draws a fresh uid).
SaveIcs ==
    /\ pc = "ics"
    /\ cal' = {[idx |-> k, event |-> IcsEvent(all_events[k])] :
                  k \in {j \in 1..Len(all_events) :
                            IcsEvent(all_events[j]).status = "added"}}
    /\ skipped' = {k \in 1..Len(all_events) :
                      IcsEvent(all_events[k]).status = "raised"}
    /\ pc' = "done"
    /\ UNCHANGED <<today, page, ret, all_events, i, d, steps, events, csv,
                   report, index_html, text, origin, parsed, row, built, coll,
                   filter_past, as_of, result>>

\* ----------------------------------------------------------- idle values

NoDate == Date(1, 1, 1)
NoOrigin == [pre |-> 0, date |-> NoDate, fmt |-> 0, suf |-> 0]
NoRet == [emerald |-> <<>>, ibma |-> <<>>, nybma |-> <<>>, mrmclub |-> <<>>]
NoPage == [rows |-> <<>>, ibma |-> <<>>, nybma |-> <<>>]
NoRow == EventRec(<<>>, <<>>, <<>>, None, <<>>)
Todays == {[year |-> y, month |-> m] : y \in Years, m \in 1..12}

IdleMain ==
    /\ page = NoPage
    /\ ret = NoRet
    /\ all_events = <<>>
    /\ csv = <<>>
    /\ report = <<>>
    /\ index_html = <<>>
    /\ cal = {}
    /\ skipped = {}
IdleMrm ==
    /\ i = 0
    /\ d = NoDate
    /\ steps = 0
    /\ events = <<>>
IdleParse ==
    /\ text = <<>>
    /\ origin = NoOrigin
    /\ parsed = None
IdleBuild ==
    /\ row = NoRow
    /\ built = [status |-> "none"]
IdleRun ==
    /\ coll = <<>>
    /\ filter_past = FALSE
    /\ as_of = NoDate
    /\ result = <<>>

\* --------------------------------------- scrape_mrmclub on its own

InitMrm ==
    /\ pc = "mrmclub"
    /\ today \in Todays
    /\ IdleMain /\ IdleMrm /\ IdleParse /\ IdleBuild /\ IdleRun
NextMrm ==
    \/ MrmFetch
    \/ MrmFetchRaises
    \/ MrmFor
    \/ MrmAdvance
    \/ MrmAppend
    \/ MrmReturn
SpecMrm == InitMrm /\ [][NextMrm]_vars

\* ---------------------------------- parse_date_from_text on its own

\* "Month D, YYYY" as a page would print it; fmt 2 pads the day with a zero.
DateText(dt, fmt) ==
    MonthNames[dt.month] \o <<" ">>
    \o (IF fmt = 2 \/ dt.day >= 10 THEN Pad2(dt.day)
        ELSE <<Digits[dt.day + 1]>>)
    \o <<",", " ">> \o Pad4(dt.year)

\* Text before the date.  1..5 hold no substring of the pattern's shape;
\* 6 and 7 hold one that is no date; 8 holds one that is a date.
\* "Next meeting: ", "Thursday, ", "Room B, Late"
Prefixes == <<<<>>, <<"N", "e", "x", "t", " ", "m", "e", "e", "t", "i",
                      "n", "g", ":", " ">>, <<"T", "h", "u", "r", "s", "d",
                                              "a", "y", ",", " ">>, <<"R", "o", "o", "m", " ",
                                                                      "B", ",", " ", "L", "a",
                                                                      "t", "e">>,
              \* "12, 2025 x", "Room 12, 2025 - ", "June 31, 2025; "
              <<"1", "2", ",", " ", "2", "0", "2", "5", " ", "x">>, <<"R", "o", "o", "m", " ",
                                                                      "1", "2", ",", " ", "2",
                                                                      "0", "2", "5", " ", "-", " ">>, <<"J", "u", "n", "e", " ",
                                                                                                        "3", "1", ",", " ", "2",
                                                                                                        "0", "2", "5", ";", " ">>,
              \* "May 5, 2025 and "
              <<"M", "a", "y", " ", "5", ",", " ", "2", "0", "2", "5", " ",
                "a", "n", "d", " ">>>>
ShapedBadPrefixes == {6, 7}
\* Text after the date.
\* " at 6pm"
Suffixes == <<<<>>, <<" ", "a", "t", " ", "6", "p", "m">>, <<"1">>>>
\* Text with no date in it.
\* "No meeting this month", "Call 212, 5551"
Undated == <<<<>>, <<"N", "o", " ", "m", "e", "e", "t", "i", "n", "g", " ",
                     "t", "h", "i", "s", " ", "m", "o", "n", "t", "h">>, <<"C", "a", "l", "l", " ",
                                                                           "2", "1", "2", ",", " ",
                                                                           "5", "5", "5", "1">>>>

StudyDays == {1, 9, 11, 28, 29, 30, 31}
StudyDates ==
    {Date(y, m, dd) : y \in Years, m \in 1..12, dd \in StudyDays}
Origins ==
    [pre : 1..Len(Prefixes),
     date : {dt \in StudyDates : ValidDate(dt.year, dt.month, dt.day)},
     fmt : {1, 2}, suf : 1..Len(Suffixes)]
    \cup [pre : 1..Len(Prefixes), date : {NoDate}, fmt : {0},
          suf : 1..Len(Undated)]
TextOf(o) ==
    IF o.fmt = 0 THEN Prefixes[o.pre] \o Undated[o.suf]
    ELSE Prefixes[o.pre] \o DateText(o.date, o.fmt) \o Suffixes[o.suf]

InitParse ==
    /\ pc = "parse"
    /\ origin \in Origins
    /\ text = TextOf(origin)
    /\ parsed = None
    /\ today = [year |-> BaseYear, month |-> 1]
    /\ IdleMain /\ IdleMrm /\ IdleBuild /\ IdleRun
Parse ==
    /\ pc = "parse"
    /\ parsed' = parse_date_from_text(text)
    /\ pc' = "parsed"
    /\ UNCHANGED <<today, page, ret, all_events, i, d, steps, events, csv,
                   report, index_html, cal, skipped, text, origin, row, built,
                   coll, filter_past, as_of, result>>
NextParse == Parse
SpecParse == InitParse /\ [][NextParse]_vars

\* ------------------------------------------------------ the main runner

\* date.today() in the runs of the whole program the model draws.
MainTodays == {[year |-> y, month |-> 10] : y \in Years}

Init ==
    /\ pc = "emerald"
    /\ today \in MainTodays
    /\ IdleMain /\ IdleMrm /\ IdleParse /\ IdleBuild /\ IdleRun
Next ==
    \/ FetchRaises
    \/ ScrapeEmeraldGuild
    \/ ScrapeEmeraldGuildRaises
    \/ ScrapeIbma
    \/ ScrapeNybma
    \/ MrmFetch
    \/ MrmFetchRaises
    \/ MrmFor
    \/ MrmAdvance
    \/ MrmAppend
    \/ MrmReturn
    \/ SaveCsv
    \/ SaveHtml
    \/ CopyIndex
    \/ SaveIcs
Spec == Init /\ [][Next]_vars

\* ------------------------------------ the body of the ICS loop on its own

Clubs == {EMERALD_GUILD, ILLYRIAN_BMA, NYBMA, MRM_CLUB}
AllDays ==
    {dt \in {Date(y, m, dd) : y \in Years, m \in 1..12, dd \in 1..31} :
        ValidDate(dt.year, dt.month, dt.day)}
\* Date values a scraper can also hand over: None, "" ("TBD" cut at its T),
\* and strings read from a datetime attribute that are no ISO date.
OddDates ==
    \* "2025-13-45", "soon", "2025-7-4"
    {None, Some(<<>>), Some(<<"2", "0", "2", "5", "-", "1", "3", "-", "4",
                              "5">>), Some(<<"s", "o", "o", "n">>), Some(<<"2", "0", "2", "5", "-",
                                                                           "7", "-", "4">>),
     \* "2025-02-30", "2025-07-04x", "20250704"
     Some(<<"2", "0", "2", "5", "-", "0", "2", "-", "3", "0">>), Some(<<"2", "0", "2", "5", "-",
                                                                        "0", "7", "-", "0", "4", "x">>), Some(<<"2", "0", "2", "5", "0",
                                                                                                                "7", "0", "4">>)}
\* A row as the club's scraper fills it, with the given date.
StudyRow(club, date) ==
    IF club = EMERALD_GUILD
    \* "Gala"
    THEN EventRec(club, <<"G", "a", "l", "a">>, NA, date, EmeraldUrl)
    ELSE IF club = ILLYRIAN_BMA
    THEN EventRec(club, MonthlyMeeting, IbmaLocation, date, IbmaUrl)
    ELSE IF club = NYBMA
    THEN EventRec(club, BusinessMeeting, ConnollysLocation, date, NybmaUrl)
    ELSE EventRec(club, MonthlyMeeting, ConnollysLocation, date, MrmSourceUrl)
StudyRows ==
    {StudyRow(c, dv) :
        c \in Clubs, dv \in {Some(IsoFormat(dt)) : dt \in AllDays} \cup OddDates}

InitBuild ==
    /\ pc = "build"
    /\ row \in StudyRows
    /\ built = [status |-> "none"]
    /\ today = [year |-> BaseYear, month |-> 1]
    /\ IdleMain /\ IdleMrm /\ IdleParse /\ IdleRun
BuildEvent ==
    /\ pc = "build"
    /\ built' = IcsEvent(row)
    /\ pc' = "built"
    /\ UNCHANGED <<today, page, ret, all_events, i, d, steps, events, csv,
                   report, index_html, cal, skipped, text, origin, parsed, row,
                   coll, filter_past, as_of, result>>
NextBuild == BuildEvent
SpecBuild == InitBuild /\ [][NextBuild]_vars

\* ------------------------------------------- run(adapters, filter_past, as_of)
\* The filtering variant of the runner is not among the source files; this
\* part follows section 4.4 of the specification: with filter_past, keep the
\* events whose date is present and not before as_of; without, keep all.

KeepEventAlt(r, asof) ==
    ~r.date.some \/
    LET dt == Strptime(r.date.val)
    IN  ToOrdinal(Date(dt.year, dt.month, dt.day)) > ToOrdinal(asof)
KeepEvent(r, asof) ==
    /\ r.date.some
    /\ LET dt == Strptime(r.date.val)
       IN  ToOrdinal(Date(dt.year, dt.month, dt.day)) >= ToOrdinal(asof)
RunFilter(c, fp, asof) ==
    IF fp
    THEN LET Keep(r) == KeepEvent(r, asof) IN SelectSeq(c, Keep)
    ELSE c

FilterDays ==
    {Date(BaseYear + 1, 10, 15), Date(BaseYear + 1, 11, 1),
     Date(BaseYear + 1, 11, 6)}
FilterEvents ==
    {StudyRow(NYBMA, dv) :
        dv \in {Some(IsoFormat(dt)) : dt \in FilterDays} \cup {None}}
    \cup {StudyRow(EMERALD_GUILD, Some(IsoFormat(Date(BaseYear + 1, 11, 6))))}
InitRun ==
    /\ pc = "run"
    /\ coll \in UNION {[1..n -> FilterEvents] : n \in 0..MaxColl}
    /\ filter_past \in BOOLEAN
    /\ as_of \in FilterDays
    /\ result = <<>>
    /\ today = [year |-> BaseYear, month |-> 1]
    /\ IdleMain /\ IdleMrm /\ IdleParse /\ IdleBuild
Run ==
    /\ pc = "run"
    /\ result' = RunFilter(coll, filter_past, as_of)
    /\ pc' = "returned"
    /\ UNCHANGED <<today, page, ret, all_events, i, d, steps, events, csv,
                   report, index_html, cal, skipped, text, origin, parsed, row,
                   built, coll, filter_past, as_of>>
NextRun == Run
SpecRun == InitRun /\ [][NextRun]_vars

\* ================================================================ claims

\* ------------------------------------------------ independent reference

\* The k-th calendar month after (y, m), stepping one month at a time with
\* the December to January step spelled out.
RECURSIVE NthMonthAfter(_, _, _)
NthMonthAfter(y, m, k) ==
    IF k = 0 THEN <<y, m>>
    ELSE IF m = 12 THEN NthMonthAfter(y + 1, 1, k - 1)
    ELSE NthMonthAfter(y, m + 1, k - 1)

\* Day of the week by Sakamoto's congruence: 0 is Sunday, 4 is Thursday.
SakamotoT == <<0, 3, 2, 5, 0, 3, 5, 1, 4, 6, 2, 4>>
DayOfWeek(y, m, dd) ==
    LET yy == IF m < 3 THEN y - 1 ELSE y
    IN  (yy + yy \div 4 - yy \div 100 + yy \div 400 + SakamotoT[m] + dd) % 7

\* a < b on calendar dates, field by field
DateLess(a, b) ==
    \/ a.year < b.year
    \/ a.year = b.year /\ a.month < b.month
    \/ a.year = b.year /\ a.month = b.month /\ a.day < b.day

\* The dates of the records scrape_mrmclub has appended so far.
MrmDates == [k \in 1..Len(events) |-> Strptime(events[k].date.val)]

\* C3: first_thursday terminates (at most 6 day steps, never leaving the
\* month), returns a Thursday with day-of-month 1..7 of the requested year
\* and month, and scrape_mrmclub returns exactly one record per month of its
\* window, in window order; October to December 2025 give 2025-10-02,
\* 2025-11-06, 2025-12-04.
C3_FirstThursday ==
    /\ pc = "mrm_while" =>
        /\ steps <= 6
        /\ d.day = steps + 1
        /\ <<d.year, d.month>> = <<MrmYear(today, i), MrmMonth(today, i)>>
    /\ pc \in {"mrm_for", "mrm_while"} => Len(events) = i
    /\ \A k \in 1..Len(events) :
        LET dt == MrmDates[k]
        IN  /\ events[k].date.some
            /\ dt.ok
            /\ <<dt.year, dt.month>> =
                   NthMonthAfter(today.year, today.month, k - 1)
            /\ dt.day \in 1..7
            /\ DayOfWeek(dt.year, dt.month, dt.day) = 4
    /\ pc = "csv" => Len(ret.mrmclub) = 12 /\ ret.mrmclub = events
    /\ (today = [year |-> 2025, month |-> 10] /\ Len(events) >= 3) =>
        \* "2025-10-02"
        /\ events[1].date.val = <<"2", "0", "2", "5", "-", "1", "0", "-",
                                  "0", "2">>
        \* "2025-11-06"
        /\ events[2].date.val = <<"2", "0", "2", "5", "-", "1", "1", "-",
                                  "0", "6">>
        \* "2025-12-04"
        /\ events[3].date.val = <<"2", "0", "2", "5", "-", "1", "2", "-",
                                  "0", "4">>

\* C3 witness: the call that starts in October 2025 has returned its twelve
\* records, the first dated 2025-10-02.
C3_Witness ==
    /\ pc = "csv"
    /\ today = [year |-> 2025, month |-> 10]
    /\ Len(ret.mrmclub) = 12
    \* "2025-10-02"
    /\ ret.mrmclub[1].date.val = <<"2", "0", "2", "5", "-", "1", "0", "-",
                                   "0", "2">>

\* C10: in iteration i the computed (year, month) is the i-th calendar month
\* after today's: the month lies in 1..12, the first pair is today's, each
\* pair follows the one before (the year grows by one exactly at the
\* December to January step), and the generated dates strictly increase.
C10_Rollover ==
    /\ pc = "mrm_while" =>
        /\ d.month \in 1..12
        /\ <<d.year, d.month>> = NthMonthAfter(today.year, today.month, i)
    /\ Len(events) >= 1 =>
        <<MrmDates[1].year, MrmDates[1].month>> = <<today.year, today.month>>
    /\ \A k \in 1..(Len(events) - 1) :
        LET a == MrmDates[k]
            b == MrmDates[k + 1]
        IN  /\ b.month = (IF a.month = 12 THEN 1 ELSE a.month + 1)
            /\ b.year = (IF a.month = 12 THEN a.year + 1 ELSE a.year)
            /\ DateLess(a, b)
    /\ \A j, k \in 1..Len(events) :
        j # k => <<MrmDates[j].year, MrmDates[j].month>> #
                 <<MrmDates[k].year, MrmDates[k].month>>

\* C10 witness: a full window that crossed a year end.
C10_Witness ==
    /\ pc = "csv"
    /\ Len(ret.mrmclub) = 12
    /\ \E k \in 1..11 :
        /\ MrmDates[k].month = 12
        /\ MrmDates[k + 1].month = 1
        /\ MrmDates[k + 1].year = today.year + 1

\* ------------------------------------------------------------ whole runs

\* The runner is past collection: all four scrapers have returned.
Collected == pc \in {"csv", "html", "copy", "ics", "done"}
\* events.csv / report.html have been written.
CsvWritten == pc \in {"html", "copy", "ics", "done"}
HtmlWritten == pc \in {"copy", "ics", "done"}

\* A date string is present and is no calendar date in ISO form.
Malformed(r) == Truthy(r.date) /\ ~Strptime(r.date.val).ok

\* C1: a failing adapter contributes nothing and the run goes on to the
\* other adapters and to the three outputs: the run never aborts.
C1_FailureIsolated == pc # "crashed"

\* C7: a record whose date string is no ISO date is left out of the
\* collection and of the CSV, the HTML report and the calendar, and the
\* other records are written.
C7_BadDateExcluded ==
    pc = "done" =>
        /\ \A k \in 1..Len(all_events) : ~Malformed(all_events[k])
        /\ \A k \in 1..Len(all_events) :
            Malformed(all_events[k]) =>
                /\ \A j \in 2..Len(csv) : csv[j] # CsvRow(all_events[k])
                /\ \A j \in 1..Len(report) :
                    report[j] # HtmlItem(all_events[k])[3]
                /\ \A e \in cal : e.idx # k

\* html.escape(s, quote=True)
RECURSIVE Escape(_)
Escape(s) ==
    IF s = <<>> THEN <<>>
    \* "&amp;"
    ELSE (CASE Head(s) = "&" -> <<"&", "a", "m", "p", ";">>
            \* "&lt;"
            [] Head(s) = "<" -> <<"&", "l", "t", ";">>
            \* "&gt;"
            [] Head(s) = ">" -> <<"&", "g", "t", ";">>
            \* "&quot;"
            [] Head(s) = "\"" -> <<"&", "q", "u", "o", "t", ";">>
            \* "&#x27;"
            [] Head(s) = "'" -> <<"&", "#", "x", "2", "7", ";">>
            [] OTHER -> <<Head(s)>>) \o Escape(Tail(s))
EscapedRow(r) ==
    EventRec(Escape(r.club), Escape(r.title), Escape(r.location),
             IF r.date.some THEN Some(Escape(r.date.val)) ELSE None,
             Escape(r.source_url))

\* C8: the report holds every field of every event in HTML-escaped form
\* only: it is the report of the escaped rows.
C8_HtmlEscaped ==
    HtmlWritten =>
        report = Html([k \in 1..Len(all_events) |-> EscapedRow(all_events[k])])

\* C9: the collection is the scrapers' outputs one after the other in the
\* order Emerald Guild, IBMA, NYBMA, MRM Club, each in the order returned
\* (the Emerald Guild records in page order, the MRM records in window
\* order), and the CSV rows and the HTML list items follow the collection,
\* one per event.
C9_CollectionOrder ==
    /\ pc = "ibma" => all_events = ret.emerald
    /\ pc = "nybma" => all_events = ret.emerald \o ret.ibma
    /\ pc \in {"mrmclub", "mrm_for", "mrm_while"} =>
        all_events = ret.emerald \o ret.ibma \o ret.nybma
    /\ Collected =>
        LET n == Len(page.rows)
        IN  /\ all_events =
                   ret.emerald \o ret.ibma \o ret.nybma \o ret.mrmclub
            /\ Len(all_events) = n + 14
            /\ \A k \in 1..n :
                /\ all_events[k].club = EMERALD_GUILD
                /\ page.rows[k].title_el =>
                       all_events[k].title = page.rows[k].title
                /\ ~page.rows[k].title_el =>
                       all_events[k].title = DefaultTitle
            /\ all_events[n + 1].club = ILLYRIAN_BMA
            /\ all_events[n + 2].club = NYBMA
            /\ \A k \in 1..12 :
                /\ all_events[n + 2 + k].club = MRM_CLUB
                /\ LET dt == Strptime(all_events[n + 2 + k].date.val)
                   IN  <<dt.year, dt.month>> =
                           NthMonthAfter(today.year, today.month, k - 1)
    /\ CsvWritten =>
        /\ Len(csv) = Len(all_events) + 1
        /\ \A k \in 1..Len(all_events) :
            /\ csv[k + 1][1] = all_events[k].club
            /\ csv[k + 1][2] = CsvField(all_events[k].title)
    /\ HtmlWritten =>
        /\ Len(report) = 6 * Len(all_events) + 2
        /\ \A k \in 1..Len(all_events) :
            \* "<li>\n"
            /\ report[6 * (k - 1) + 2] = <<"<", "l", "i", ">", "\n">>
            /\ report[6 * (k - 1) + 4] =
                   \* "Title: ", "<br>\n"
                   <<"T", "i", "t", "l", "e", ":", " ">> \o all_events[k].title \o <<"<", "b", "r", ">", "\n">>
            \* "</li><br>\n"
            /\ report[6 * (k - 1) + 7] = <<"<", "/", "l", "i", ">", "<",
                                           "b", "r", ">", "\n">>

\* C9 witness: a finished run whose collection holds two Emerald Guild
\* records and is not in date order (a later date stands before an earlier
\* one).
C9_Witness ==
    /\ pc = "done"
    /\ Len(page.rows) = 2
    /\ \E j, k \in 1..Len(all_events) :
        /\ j < k
        /\ Truthy(all_events[j].date) /\ Truthy(all_events[k].date)
        /\ Strptime(all_events[j].date.val).ok
        /\ Strptime(all_events[k].date.val).ok
        /\ DateLess(Strptime(all_events[k].date.val),
                    Strptime(all_events[j].date.val))

\* ------------------------------------------------- the ICS loop body

\* A str of the form YYYY-MM-DD that names a calendar date, read by position.
IsoDateOf(s) ==
    Date(IntOf(SubSeq(s, 1, 4)), IntOf(SubSeq(s, 6, 7)),
         IntOf(SubSeq(s, 9, 10)))
IsIsoDate(s) ==
    /\ Len(s) = 10
    /\ s[5] = "-" /\ s[8] = "-"
    /\ \A p \in {1, 2, 3, 4, 6, 7, 9, 10} : IsDigit(s[p])
    /\ LET dt == IsoDateOf(s) IN ValidDate(dt.year, dt.month, dt.day)

\* The instant as minutes on the UTC time line, the days counted year by
\* year and month by month from the first of January 2001.
RECURSIVE DaysToYear(_)
DaysToYear(y) ==
    IF y <= 2001 THEN 0
    ELSE (IF IsLeap(y - 1) THEN 366 ELSE 365) + DaysToYear(y - 1)
RECURSIVE DaysToMonth(_, _)
DaysToMonth(y, m) ==
    IF m <= 1 THEN 0 ELSE DaysInMonth(y, m - 1) + DaysToMonth(y, m - 1)
UtcMinutes(x) ==
    (DaysToYear(x.year) + DaysToMonth(x.year, x.month) + x.day) * 1440
    + x.hour * 60 + x.minute - x.utcoffset

\* The time-of-day policy as the claim words it.
PolicyTimes(club) ==
    IF club = EMERALD_GUILD THEN <<17, 0, 20, 0>>
    ELSE IF club = NYBMA THEN <<19, 30, 21, 30>>
    ELSE <<18, 0, 21, 0>>

\* C4: for a row with a date, whatever the club, the event is added with
\* start and end present, both on the row's calendar date in
\* America/New_York, start before end, at 17:00-20:00 for Emerald Guild,
\* 19:30-21:30 for NYBMA and 18:00-21:00 for any other club.
C4_StartEnd ==
    (pc = "built" /\ Truthy(row.date) /\ IsIsoDate(row.date.val)) =>
        LET dt == IsoDateOf(row.date.val)
            t == PolicyTimes(row.club)
        IN  /\ built.status = "added"
            /\ built.begin.some /\ built.end.some
            /\ Date(built.begin.year, built.begin.month, built.begin.day) = dt
            /\ Date(built.end.year, built.end.month, built.end.day) = dt
            /\ built.begin.utcoffset \in {0 - 240, 0 - 300}
            /\ built.end.utcoffset = built.begin.utcoffset
            /\ UtcMinutes(built.begin) < UtcMinutes(built.end)
            /\ <<built.begin.hour, built.begin.minute>> = <<t[1], t[2]>>
            /\ <<built.end.hour, built.end.minute>> = <<t[3], t[4]>>

\* C4 witness: a dated row of the club the chain does not name (Illyrian
\* BMA) got its event at the default 18:00.
C4_Witness ==
    /\ pc = "built"
    /\ row.club = ILLYRIAN_BMA
    \* "2025-11-06"
    /\ row.date = Some(<<"2", "0", "2", "5", "-", "1", "1", "-", "0", "6">>)
    /\ built.status = "added"
    /\ built.begin.some
    /\ built.begin.hour = 18

\* Daylight time in America/New_York, from the zone's published transition
\* days: the day in March it starts and the day in November it ends.
DstMarch(y) ==
    CASE y = 2024 -> 10 [] y = 2025 -> 9 [] y = 2026 -> 8 [] y = 2027 -> 14
      [] y = 2028 -> 12 [] y = 2029 -> 11 [] y = 2030 -> 10
DstNovember(y) ==
    CASE y = 2024 -> 3 [] y = 2025 -> 2 [] y = 2026 -> 1 [] y = 2027 -> 7
      [] y = 2028 -> 5 [] y = 2029 -> 4 [] y = 2030 -> 3
\* The offset in force at the policy's evening hours of a date.
EveningOffset(y, m, dd) ==
    IF \/ m \in 4..10
       \/ m = 3 /\ dd >= DstMarch(y)
       \/ m = 11 /\ dd < DstNovember(y)
    THEN 0 - 240 ELSE 0 - 300

\* C5: start and end carry the offset in force in America/New_York on the
\* event's date, -04:00 inside daylight time and -05:00 outside, with the
\* policy's wall-clock time on both sides: Emerald Guild on 2025-07-04
\* starts 17:00-04:00, NYBMA on 2025-11-06 runs 19:30-05:00 to 21:30-05:00.
C5_Offset ==
    (pc = "built" /\ built.status = "added" /\ built.begin.some) =>
        LET b == built.begin
            e == built.end
            t == PolicyTimes(row.club)
        IN  /\ b.utcoffset = EveningOffset(b.year, b.month, b.day)
            /\ e.utcoffset = EveningOffset(e.year, e.month, e.day)
            /\ <<b.hour, b.minute, e.hour, e.minute>> = t
            \* "2025-07-04"
            /\ row = StudyRow(EMERALD_GUILD, Some(<<"2", "0", "2", "5", "-",
                                                    "0", "7", "-", "0", "4">>)) =>
                <<b.hour, b.minute, b.utcoffset>> = <<17, 0, 0 - 240>>
            \* "2025-11-06"
            /\ row = StudyRow(NYBMA, Some(<<"2", "0", "2", "5", "-", "1",
                                            "1", "-", "0", "6">>)) =>
                /\ <<b.hour, b.minute, b.utcoffset>> = <<19, 30, 0 - 300>>
                /\ <<e.hour, e.minute, e.utcoffset>> = <<21, 30, 0 - 300>>

\* C5 witness: the Emerald Guild row of 2025-07-04 was built at -04:00.
C5_Witness ==
    /\ pc = "built"
    \* "2025-07-04"
    /\ row = StudyRow(EMERALD_GUILD, Some(<<"2", "0", "2", "5", "-", "0",
                                            "7", "-", "0", "4">>))
    /\ built.status = "added"
    /\ built.begin.utcoffset = 0 - 240

\* ------------------------------------------------- parse_date_from_text

\* C6 as claimed: whenever the text holds a valid "Month D, YYYY", the
\* result is the ISO date of a valid one, whatever stands before it.
C6_AnyValidSubstring ==
    (pc = "parsed" /\ origin.fmt # 0) =>
        /\ parsed.some
        /\ \/ parsed.val = IsoFormat(origin.date)
           \* "2025-05-05"
           \/ origin.pre = 8 /\ parsed.val = <<"2", "0", "2", "5", "-",
                                               "0", "5", "-", "0", "5">>

\* C6 as amended: the result is the ISO date of the leftmost substring of
\* the pattern's shape when that substring is a valid date; when the
\* leftmost such substring is "Room 12, 2025" or "June 31, 2025" the result
\* is None even though a valid date follows; with no such substring it is
\* None.
C6_LeftmostMatch ==
    pc = "parsed" =>
        IF origin.pre \in ShapedBadPrefixes THEN parsed = None
        \* "2025-05-05"
        ELSE IF origin.pre = 8 THEN parsed = Some(<<"2", "0", "2", "5", "-",
                                                    "0", "5", "-", "0", "5">>)
        ELSE IF origin.fmt # 0 THEN parsed = Some(IsoFormat(origin.date))
        ELSE parsed = None

\* C6 witness: a valid date with text on both sides and nothing of the
\* pattern's shape before it was found.
C6_Witness ==
    /\ pc = "parsed"
    /\ origin.pre = 2
    /\ origin.suf = 2
    /\ origin.date = Date(2025, 9, 11)
    \* "2025-09-11"
    /\ parsed = Some(<<"2", "0", "2", "5", "-", "0", "9", "-", "1", "1">>)

\* ------------------------------------------------------------------ run

Count(seq, e) == Cardinality({k \in 1..Len(seq) : seq[k] = e})

\* The event has a date and it is not before asof.
Upcoming(e, asof) == e.date.some /\ ~DateLess(IsoDateOf(e.date.val), asof)

\* C2: with filter_past the result holds exactly the events whose date is
\* present and not before as_of, in their order; without it the result is
\* the whole collection, past and undated events included.
C2_Filter ==
    pc = "returned" =>
        IF filter_past
        THEN /\ \A k \in 1..Len(result) : Upcoming(result[k], as_of)
             /\ \A e \in FilterEvents :
                 Count(result, e) =
                     (IF Upcoming(e, as_of) THEN Count(coll, e) ELSE 0)
             /\ \A j, k \in 1..Len(result) :
                 j < k => \E a, b \in 1..Len(coll) :
                     a < b /\ coll[a] = result[j] /\ coll[b] = result[k]
        ELSE result = coll

\* C2 witness: as of 1 November, a past, an upcoming and an undated event
\* were filtered down to the upcoming one.
C2_Witness ==
    /\ pc = "returned"
    /\ filter_past
    /\ as_of = Date(BaseYear + 1, 11, 1)
    /\ coll = <<StudyRow(NYBMA, Some(IsoFormat(Date(BaseYear + 1, 10, 15)))),
                StudyRow(NYBMA, Some(IsoFormat(Date(BaseYear + 1, 11, 6)))),
                StudyRow(NYBMA, None)>>
    /\ result = <<StudyRow(NYBMA, Some(IsoFormat(Date(BaseYear + 1, 11, 6))))>>

====
